---- MODULE Spec2Model ----
(***************************************************************************)
(* A model of the react-vite-ts-boilerplate repository: the App component  *)
(* of src/src/App.tsx (a counter kept in a useState hook), and the         *)
(* patterns its README files document: the route guards and the router of  *)
(* the routes folder, the useAuth hook of the context folder, and the      *)
(* utilities, services and hooks of the other folders.                     *)
(*                                                                         *)
(* Each part has its own specification (Spec, SpecRoutes, SpecGuards,      *)
(* SpecUtils, ...); a part's actions leave the other parts' variables      *)
(* unchanged.                                                              *)
(***************************************************************************)
EXTENDS Integers, Sequences, FiniteSets, TLC

VARIABLES
    \* ---- App (src/src/App.tsx), one entry per mounted or unmounted instance
    hooks,      \* hooks[i]: the instance's hook list: <<count>> while mounted, <<>> otherwise
    queue,      \* queue[i]: how many updaters setCount has enqueued that no render has applied yet
    view,       \* view[i]: what the instance's last render put on the page, NoView if nothing
    crashed,    \* crashed[i]: a render or handler of the instance threw
    clicks,     \* clicks[i]: history: the clicks handled since the instance was mounted
    lost,       \* lost[i]: history: the count the instance had when it was last unmounted
    \* ---- the documented router and guards (src/src/types/README.md)
    ctx,        \* the value useContext(AuthContext) yields: Undefined, or the auth state
    location,   \* the router's current location: [pathname, from]
    screen,     \* what the last render of the routes displayed
    settled,    \* the last render displayed something and asked for no redirect
    redirects,  \* history: the redirects followed since the last requested URL
    requested,  \* history: the URL last requested by the user
    intended,   \* history: the protected route an unauthenticated request was turned away from
    loggedIn,   \* history: a login succeeded after that request was turned away
    \* ---- one component rendered on its own under the context (a unit test's render)
    probe,      \* the last such render: the component, its inputs and what it returned
    \* ---- the documented utilities and lib functions (src/unnamed/part_001, part_002)
    util,       \* the last call of a utility: the function, its arguments and its result
    prev,       \* the call of a utility before that one
    now,        \* the system clock new Date() reads, in milliseconds
    localStorage,   \* window.localStorage: key -> the stored text, or Null
    expected,   \* key -> the value of the last setItem with no removeItem after it
    got,        \* the last operation on SecureStorage and its outcome
    token,      \* AuthService's private field token
    authContext,    \* the auth state auth.service.ts updates: user and authenticated
    pending,    \* the call of the service awaiting the answer of authApi, or NoLogin
    apiCalls,   \* the calls of authApi the last call of the service made
    loginResult,    \* how the last call of the service ended, once it has ended
    heap,       \* the objects and arrays the caller of arrayUtils and objectUtils holds
    call,       \* the last call of arrayUtils or objectUtils, with the heap before it
    hookState,  \* useExample's state: data, loading and error
    hookUpdates,    \* the state updates queued for the next render, in order
    hookReturn, \* what the last render of useExample returned
    hookParam,  \* the param of the last render
    effectPending,  \* the effect calling fetchData is due: fetchData has changed
    fetches,    \* the calls of apiCall that have not settled
    started,    \* how many fetches the hook has started
    settledFetches, \* the fetches that have settled, in the order they did
    renders     \* how many times the hook has rendered, up to MaxRenders

appVars == <<hooks, queue, view, crashed, clicks, lost>>
routeVars == <<ctx, location, screen, settled, redirects, requested, intended, loggedIn>>
uiVars == <<appVars, routeVars, probe>>
utilVars == <<util>>
clockVars == <<prev, now>>
storeVars == <<localStorage, expected, got>>
serviceVars == <<token, authContext, pending, apiCalls, loginResult>>
heapVars == <<heap, call>>
hookVars == <<hookState, hookUpdates, hookReturn, hookParam, effectPending, fetches,
              started, settledFetches, renders>>
libVars == <<utilVars, clockVars, storeVars, serviceVars, heapVars, hookVars>>

\* What the actions of one part of the program leave alone.
outsideUtils == <<uiVars, clockVars, storeVars, serviceVars, heapVars, hookVars>>
outsideClock == <<uiVars, storeVars, serviceVars, heapVars, hookVars>>
outsideStorage == <<uiVars, utilVars, clockVars, serviceVars, heapVars, hookVars>>
outsideService == <<uiVars, utilVars, clockVars, heapVars, hookVars>>
outsideHeap == <<uiVars, utilVars, clockVars, storeVars, serviceVars, hookVars>>
outsideHook == <<uiVars, utilVars, clockVars, storeVars, serviceVars, heapVars>>
vars == <<hooks, queue, view, crashed, clicks, lost,
          ctx, location, screen, settled, redirects, requested, intended, loggedIn,
          probe, util, prev, now, localStorage, expected, got,
          token, authContext, pending, apiCalls, loginResult, heap, call,
          hookState, hookUpdates, hookReturn, hookParam, effectPending, fetches,
          started, settledFetches, renders>>

----
\* Bounds of the model.
NumInstances == 2
MaxClicks == 2
MaxRedirects == 3
MaxStrLen == 3
MaxLength == 4
MaxItems == 3
MaxFetches == 3
MaxRenders == 3

Instances == 1 .. NumInstances

----
(***************************************************************************)
(* App: src/src/App.tsx                                                    *)
(***************************************************************************)

\* useState(0): the state a fresh mount starts from.
InitialCount == 0

\* Updater that stops counting at 1.
UpdaterCapped(count) == IF count >= 1 THEN count ELSE count + 1

\* The updater the click handler passes to setCount: (count) => count + 1.
Updater(count) == count + 1

\* ApplyUpdaters with every queued update computed from the rendered count, as
\* setCount(count + 1) would enqueue it.
ApplyUpdatersStale(count, n) == IF n = 0 THEN count ELSE Updater(count)

\* React applies the queued updaters in order to the hook's state.
RECURSIVE ApplyUpdaters(_, _)
ApplyUpdaters(count, n) ==
    IF n = 0 THEN count ELSE ApplyUpdaters(Updater(count), n - 1)

\* A number as JSX prints it: its decimal digits.
DigitChar(d) ==
    CASE d = 0 -> "0" [] d = 1 -> "1" [] d = 2 -> "2" [] d = 3 -> "3" [] d = 4 -> "4"
      [] d = 5 -> "5" [] d = 6 -> "6" [] d = 7 -> "7" [] d = 8 -> "8" [] d = 9 -> "9"

RECURSIVE NumberToText(_)
NumberToText(n) ==
    IF n < 10 THEN DigitChar(n) ELSE NumberToText(n \div 10) \o DigitChar(n % 10)

NoView == [mounted |-> FALSE]

\* AppView with a render that throws once the count has reached 2.
AppViewThrowing(count) ==
    IF count >= 2
    THEN [error |-> "render failed"]
    ELSE [ mounted |-> TRUE,
           links   |-> <<"https://vite.dev", "https://react.dev">>,
           heading |-> "Vite + React",
           button  |-> "count is " \o NumberToText(count),
           hint    |-> "Edit src/App.tsx and save to test HMR",
           docs    |-> "Click on the Vite and React logos to learn more" ]

\* The element App returns for a count: the two links, the heading, the button's
\* text (the text "count is " followed by {count}) and the two paragraphs.
AppView(count) ==
    [ mounted |-> TRUE,
      links   |-> <<"https://vite.dev", "https://react.dev">>,
      heading |-> "Vite + React",
      button  |-> "count is " \o NumberToText(count),
      hint    |-> "Edit src/App.tsx and save to test HMR",
      docs    |-> "Click on the Vite and React logos to learn more" ]

IsElement(v) == "error" \notin DOMAIN v

InitApp ==
    /\ hooks = [i \in Instances |-> <<>>]
    /\ queue = [i \in Instances |-> 0]
    /\ view = [i \in Instances |-> NoView]
    /\ crashed = [i \in Instances |-> FALSE]
    /\ clicks = [i \in Instances |-> 0]
    /\ lost = [i \in Instances |-> 0]

\* The state the next render of instance i will return from useState.
PendingCount(i) == ApplyUpdaters(hooks[i][1], queue[i])

\* React removes an instance from the page: its hooks and its queue are dropped.
Discard(i, failed) ==
    /\ hooks' = [hooks EXCEPT ![i] = <<>>]
    /\ queue' = [queue EXCEPT ![i] = 0]
    /\ view' = [view EXCEPT ![i] = NoView]
    /\ crashed' = [crashed EXCEPT ![i] = failed]
    /\ lost' = [lost EXCEPT ![i] = PendingCount(i)]
    /\ clicks' = [clicks EXCEPT ![i] = 0]

\* Mount with the count read back from what the last unmount left behind.
MountRestoring(i) ==
    /\ hooks[i] = <<>>
    /\ hooks' = [hooks EXCEPT ![i] = <<lost[i]>>]
    /\ queue' = [queue EXCEPT ![i] = 0]
    /\ view' = [view EXCEPT ![i] = AppView(lost[i])]
    /\ crashed' = [crashed EXCEPT ![i] = FALSE]
    /\ clicks' = [clicks EXCEPT ![i] = 0]
    /\ UNCHANGED <<lost, routeVars, probe, libVars>>

\* Mounting an instance: the first call of App(), useState(0) creating the hook.
Mount(i) ==
    /\ hooks[i] = <<>>
    /\ LET v == AppView(InitialCount) IN
        /\ hooks' = [hooks EXCEPT ![i] = <<InitialCount>>]
        /\ queue' = [queue EXCEPT ![i] = 0]
        /\ view' = [view EXCEPT ![i] = IF IsElement(v) THEN v ELSE NoView]
        /\ crashed' = [crashed EXCEPT ![i] = ~IsElement(v)]
        /\ clicks' = [clicks EXCEPT ![i] = 0]
    /\ UNCHANGED <<lost, routeVars, probe, libVars>>

\* Click with the count kept in one place shared by every mounted instance.
ClickShared(i) ==
    /\ hooks[i] # <<>>
    /\ view[i].mounted
    /\ clicks[i] < MaxClicks
    /\ queue' = [j \in Instances |-> IF hooks[j] # <<>> THEN queue[j] + 1 ELSE queue[j]]
    /\ clicks' = [clicks EXCEPT ![i] = @ + 1]
    /\ UNCHANGED <<hooks, view, crashed, lost, routeVars, probe, libVars>>

\* A click on the rendered button: onClick={() => setCount((count) => count + 1)}.
\* setCount enqueues the updater; the state changes at the next render.
Click(i) ==
    /\ hooks[i] # <<>>
    /\ view[i].mounted
    /\ clicks[i] < MaxClicks
    /\ queue' = [queue EXCEPT ![i] = @ + 1]
    /\ clicks' = [clicks EXCEPT ![i] = @ + 1]
    /\ UNCHANGED <<hooks, view, crashed, lost, routeVars, probe, libVars>>

\* A render of a mounted instance: useState returns the state with the queued
\* updaters applied, and the element App returns replaces the page's content. A
\* render that throws takes the instance off the page.
Render(i) ==
    /\ hooks[i] # <<>>
    /\ LET count == PendingCount(i)
           v == AppView(count) IN
        IF IsElement(v)
        THEN /\ hooks' = [hooks EXCEPT ![i] = <<count>>]
             /\ queue' = [queue EXCEPT ![i] = 0]
             /\ view' = [view EXCEPT ![i] = v]
             /\ UNCHANGED <<crashed, clicks, lost>>
        ELSE Discard(i, TRUE)
    /\ UNCHANGED <<routeVars, probe, libVars>>

\* The instance is unmounted (its parent stops rendering it).
Unmount(i) ==
    /\ hooks[i] # <<>>
    /\ Discard(i, FALSE)
    /\ UNCHANGED <<routeVars, probe, libVars>>

NextApp == \E i \in Instances : Mount(i) \/ Click(i) \/ Render(i) \/ Unmount(i)

----
(***************************************************************************)
(* The auth context: src/src/context/README.md, src/unnamed/part_000       *)
(***************************************************************************)

\* enum UserRole
Roles == {"admin", "user", "moderator"}

Null == [kind |-> "null"]
User(role) == [kind |-> "user", role |-> role]
Users == {User(r) : r \in Roles}

\* createContext<AuthContextType | undefined>(undefined): what useContext yields
\* with no AuthProvider above the caller.
Undefined == [kind |-> "undefined"]

\* The part of AuthContextType the guards read.
AuthValue(user, isAuthenticated, isLoading) ==
    [kind |-> "auth", user |-> user, isAuthenticated |-> isAuthenticated,
     isLoading |-> isLoading]

AuthValues ==
    {AuthValue(u, a, l) : u \in Users \cup {Null}, a \in BOOLEAN, l \in BOOLEAN}

Returned(value) == [kind |-> "return", value |-> value]
Thrown(message) == [kind |-> "throw", message |-> message]

\* useAuth falling back to a default value where no provider is above the caller.
useAuthDefaulting(context) ==
    IF context = Undefined
    THEN Returned(AuthValue(Null, FALSE, FALSE))
    ELSE Returned(context)

\* useAuth: useContext(AuthContext), and a throw when that is falsy.
useAuth(context) ==
    IF context = Undefined
    THEN Thrown("useAuth must be used within AuthProvider")
    ELSE Returned(context)

----
(***************************************************************************)
(* The route guards and the router: src/src/types/README.md                *)
(***************************************************************************)

Paths == {"/", "/login", "/dashboard", "/admin"}

\* No state on a location (a URL the user opened, or a Navigate without state).
NoFrom == [kind |-> "none"]

Location(pathname, from) == [pathname |-> pathname, from |-> from]

\* What a component returns: a page, the loading placeholder, or a <Navigate>.
Page(name) == [kind |-> "page", name |-> name]
LoadingPlaceholder == [kind |-> "loading", text |-> "Loading..."]
Navigate(to, from, replace) ==
    [kind |-> "navigate", to |-> to, from |-> from, replace |-> replace]
Blank == [kind |-> "blank"]

\* ProtectedRoute with the authentication check ahead of the loading check.
ProtectedRouteAuthFirst(context, loc, children) ==
    LET auth == useAuth(context) IN
    IF auth.kind = "throw" THEN auth
    ELSE IF ~auth.value.isAuthenticated THEN Navigate("/login", loc, TRUE)
    ELSE IF auth.value.isLoading THEN LoadingPlaceholder
    ELSE children

\* ProtectedRoute: the placeholder while loading, a redirect to /login carrying
\* the current location when not authenticated, its children otherwise.
ProtectedRoute(context, loc, children) ==
    LET auth == useAuth(context) IN
    IF auth.kind = "throw" THEN auth
    ELSE IF auth.value.isLoading THEN LoadingPlaceholder
    ELSE IF ~auth.value.isAuthenticated THEN Navigate("/login", loc, TRUE)
    ELSE children

\* PublicRoute sending the authenticated to /admin.
PublicRouteToAdmin(context, children) ==
    LET auth == useAuth(context) IN
    IF auth.kind = "throw" THEN auth
    ELSE IF auth.value.isAuthenticated THEN Navigate("/admin", NoFrom, TRUE)
    ELSE children

\* PublicRoute that redirects only once the auth state has loaded.
PublicRouteAfterLoading(context, children) ==
    LET auth == useAuth(context) IN
    IF auth.kind = "throw" THEN auth
    ELSE IF auth.value.isAuthenticated /\ ~auth.value.isLoading
         THEN Navigate("/dashboard", NoFrom, TRUE)
    ELSE children

\* PublicRoute: a redirect to /dashboard when authenticated, its children otherwise.
PublicRoute(context, children) ==
    LET auth == useAuth(context) IN
    IF auth.kind = "throw" THEN auth
    ELSE IF auth.value.isAuthenticated THEN Navigate("/dashboard", NoFrom, TRUE)
    ELSE children

\* RoleRoute taking an empty allowedRoles to mean that every role is allowed.
RoleRouteEmptyAllowsAll(context, allowedRoles, children) ==
    LET auth == useAuth(context) IN
    IF auth.kind = "throw" THEN auth
    ELSE IF auth.value.user = Null THEN Navigate("/login", NoFrom, TRUE)
    ELSE IF allowedRoles # {} /\ auth.value.user.role \notin allowedRoles
         THEN Page("UnauthorizedPage")
    ELSE children

\* RoleRoute: a redirect to /login without a user, UnauthorizedPage when the
\* user's role is not among allowedRoles, its children otherwise.
RoleRoute(context, allowedRoles, children) ==
    LET auth == useAuth(context) IN
    IF auth.kind = "throw" THEN auth
    ELSE IF auth.value.user = Null THEN Navigate("/login", NoFrom, TRUE)
    ELSE IF auth.value.user.role \notin allowedRoles THEN Page("UnauthorizedPage")
    ELSE children

\* RouteElement with the RoleRoute of /admin not wrapped in a ProtectedRoute.
RouteElementBareAdmin(context, loc) ==
    CASE loc.pathname = "/" -> PublicRoute(context, Page("LandingPage"))
      [] loc.pathname = "/login" -> PublicRoute(context, Page("LoginPage"))
      [] loc.pathname = "/dashboard" -> ProtectedRoute(context, loc, Page("DashboardPage"))
      [] loc.pathname = "/admin" -> RoleRoute(context, {"admin"}, Page("AdminPage"))

\* createBrowserRouter([...]): the element of the route a location matches,
\* rendered. A guard shows its children only by returning them; the guards read
\* the same context, so what the inner guard of /admin returns is computed first
\* and shown only where the outer guard returns it.
RouteElement(context, loc) ==
    CASE loc.pathname = "/" -> PublicRoute(context, Page("LandingPage"))
      [] loc.pathname = "/login" -> PublicRoute(context, Page("LoginPage"))
      [] loc.pathname = "/dashboard" -> ProtectedRoute(context, loc, Page("DashboardPage"))
      [] loc.pathname = "/admin" ->
            ProtectedRoute(context, loc, RoleRoute(context, {"admin"}, Page("AdminPage")))

InitRoutes ==
    /\ ctx \in AuthValues \cup {Undefined}
    /\ \E p \in Paths :
        /\ location = Location(p, NoFrom)
        /\ requested = p
    /\ screen = Blank
    /\ settled = FALSE
    /\ redirects = 0
    /\ intended = NoFrom
    /\ loggedIn = FALSE

\* The user opens the URL p (a link, the address bar): a fresh location.
Request(p) ==
    /\ location' = Location(p, NoFrom)
    /\ requested' = p
    /\ settled' = FALSE
    /\ redirects' = 0
    /\ intended' = NoFrom
    /\ loggedIn' = FALSE
    /\ UNCHANGED <<ctx, screen, appVars, probe, libVars>>

\* The router renders the element of the current location. A <Navigate> shows
\* nothing and replaces the location (to, state) for the next render; anything
\* else is what the page shows.
RenderRoutes ==
    /\ ~settled
    /\ LET el == RouteElement(ctx, location) IN
        IF el.kind = "navigate"
        THEN /\ redirects < MaxRedirects
             /\ location' = Location(el.to, el.from)
             /\ screen' = Blank
             /\ redirects' = redirects + 1
             /\ intended' = IF el.from # NoFrom THEN el.from ELSE intended
             /\ UNCHANGED settled
        ELSE /\ screen' = el
             /\ settled' = TRUE
             /\ UNCHANGED <<location, redirects, intended>>
    /\ UNCHANGED <<ctx, requested, loggedIn, appVars, probe, libVars>>

\* AuthProvider.login, the API call having succeeded with a user:
\* setAuthState({ user: response.user, isAuthenticated: true }). The context's
\* consumers render again.
LoginSucceeds(user) ==
    /\ ctx # Undefined
    /\ ctx' = AuthValue(user, TRUE, FALSE)
    /\ settled' = FALSE
    /\ loggedIn' = (intended # NoFrom /\ settled /\ screen = Page("LoginPage"))
    /\ UNCHANGED <<location, screen, redirects, requested, intended, appVars, probe, libVars>>

\* AuthProvider.login clearing the flag and keeping the user when the call fails.
LoginFailsKeepingUser ==
    /\ ctx # Undefined
    /\ ctx' = AuthValue(ctx.user, FALSE, FALSE)
    /\ settled' = FALSE
    /\ loggedIn' = FALSE
    /\ UNCHANGED <<location, screen, redirects, requested, intended, appVars, probe, libVars>>

\* AuthProvider.login, the API call having failed:
\* setAuthState({ user: null, isAuthenticated: false, error }).
LoginFails ==
    /\ ctx # Undefined
    /\ ctx' = AuthValue(Null, FALSE, FALSE)
    /\ settled' = FALSE
    /\ loggedIn' = FALSE
    /\ UNCHANGED <<location, screen, redirects, requested, intended, appVars, probe, libVars>>

NextRoutes ==
    \/ \E p \in Paths : Request(p)
    \/ RenderRoutes
    \/ \E u \in Users : LoginSucceeds(u)
    \/ LoginFails

----
(***************************************************************************)
(* One guard, or useAuth, rendered on its own with the context and the     *)
(* location of the moment, as a unit test renders it under a provider.     *)
(***************************************************************************)

NoProbe == [component |-> "none"]

Probe(component, allowedRoles, result) ==
    [component |-> component, context |-> ctx, location |-> location,
     allowedRoles |-> allowedRoles, result |-> result]

InitGuards ==
    /\ ctx \in AuthValues \cup {Undefined}
    /\ \E p \in Paths, f \in {NoFrom} \cup {Location(q, NoFrom) : q \in Paths} :
        /\ location = Location(p, f)
        /\ requested = p
    /\ screen = Blank
    /\ settled = FALSE
    /\ redirects = 0
    /\ intended = NoFrom
    /\ loggedIn = FALSE

CallUseAuth ==
    /\ probe' = Probe("useAuth", {}, useAuth(ctx))
    /\ UNCHANGED <<routeVars, appVars, libVars>>

RenderProtectedRoute ==
    /\ probe' = Probe("ProtectedRoute", {}, ProtectedRoute(ctx, location, Page("children")))
    /\ UNCHANGED <<routeVars, appVars, libVars>>

RenderPublicRoute ==
    /\ probe' = Probe("PublicRoute", {}, PublicRoute(ctx, Page("children")))
    /\ UNCHANGED <<routeVars, appVars, libVars>>

RenderRoleRoute(allowedRoles) ==
    /\ probe' = Probe("RoleRoute", allowedRoles, RoleRoute(ctx, allowedRoles, Page("children")))
    /\ UNCHANGED <<routeVars, appVars, libVars>>

NextGuards ==
    \/ CallUseAuth
    \/ RenderProtectedRoute
    \/ RenderPublicRoute
    \/ \E allowedRoles \in SUBSET Roles : RenderRoleRoute(allowedRoles)
    \/ \E u \in Users : LoginSucceeds(u)
    \/ LoginFails

----
(***************************************************************************)
(* stringUtils.truncate: src/unnamed/part_002. A string is the sequence of *)
(* its characters.                                                         *)
(***************************************************************************)

Alphabet == {"a", "b"}

RECURSIVE StringsOfLen(_)
StringsOfLen(n) ==
    IF n = 0 THEN {<<>>}
    ELSE {Append(s, c) : s \in StringsOfLen(n - 1), c \in Alphabet}

HelloWorld == <<"H", "e", "l", "l", "o", " ", "W", "o", "r", "l", "d">>
Hello == <<"H", "e", "l", "l", "o">>

\* The strings truncate is called with: every string over the alphabet up to
\* MaxStrLen characters, and the two strings of the README's test.
Strings == UNION {StringsOfLen(n) : n \in 0 .. MaxStrLen} \cup {HelloWorld, Hello}

\* suffix = '...' by default; an empty and a one-character suffix besides.
DefaultSuffix == <<".", ".", ".">>
Suffixes == {DefaultSuffix, <<>>, <<"~">>}

\* The lengths truncate is called with: 0 .. MaxLength, and the 5 and the 10 of
\* the README's test.
Lengths == (0 .. MaxLength) \cup {5, 10}

\* String.prototype.substring(start, end): each index is clamped into
\* 0 .. length, and the two are swapped when start > end.
Substring(str, start, end) ==
    LET clamp(i) == IF i < 0 THEN 0 ELSE IF i > Len(str) THEN Len(str) ELSE i
        from == IF clamp(start) <= clamp(end) THEN clamp(start) ELSE clamp(end)
        to == IF clamp(start) <= clamp(end) THEN clamp(end) ELSE clamp(start)
    IN  SubSeq(str, from + 1, to)

\* truncate: str itself when it fits, else its first length - suffix.length
\* characters followed by the suffix.
truncate(str, length, suffix) ==
    IF Len(str) <= length THEN str
    ELSE Substring(str, 0, length - Len(suffix)) \o suffix

----
(***************************************************************************)
(* roles.ts: src/unnamed/part_001                                          *)
(***************************************************************************)

\* ROLE_PERMISSIONS: an entry for each member of UserRole.
ROLE_PERMISSIONS ==
    [r \in Roles |->
        CASE r = "admin" ->
                <<"users:read", "users:write", "users:delete", "settings:read",
                  "settings:write">>
          [] r = "user" -> <<"profile:read", "profile:write">>
          [] r = "moderator" -> <<"users:read", "users:write", "content:moderate">>]

\* Array.prototype.includes
Includes(array, item) == \E i \in 1 .. Len(array) : array[i] = item

\* hasPermission that lets a role without an entry do everything.
hasPermissionDefaultAllow(userRole, permission) ==
    IF userRole \in DOMAIN ROLE_PERMISSIONS
    THEN Includes(ROLE_PERMISSIONS[userRole], permission)
    ELSE TRUE

\* hasPermission: ROLE_PERMISSIONS[userRole]?.includes(permission) || false.
\* Without an entry the lookup is undefined, ?. yields undefined, and || false
\* makes it false.
hasPermission(userRole, permission) ==
    IF userRole \in DOMAIN ROLE_PERMISSIONS
    THEN Includes(ROLE_PERMISSIONS[userRole], permission) \/ FALSE
    ELSE FALSE

\* The roles and permissions hasPermission is called with: the members of
\* UserRole and a role without an entry; every permission listed and two that
\* are listed for no role.
AskedRoles == Roles \cup {"guest"}
AskedPermissions ==
    UNION {{ROLE_PERMISSIONS[r][i] : i \in 1 .. Len(ROLE_PERMISSIONS[r])} : r \in Roles}
        \cup {"content:delete", ""}

----
(***************************************************************************)
(* Calls of the utilities.                                                 *)
(***************************************************************************)

NoCall == [fn |-> "none"]

InitUtils == util = NoCall

CallTruncate(str, length, suffix) ==
    /\ util' = [fn |-> "truncate", str |-> str, length |-> length, suffix |-> suffix,
                result |-> truncate(str, length, suffix)]
    /\ UNCHANGED outsideUtils

CallHasPermission(userRole, permission) ==
    /\ util' = [fn |-> "hasPermission", userRole |-> userRole, permission |-> permission,
                result |-> hasPermission(userRole, permission)]
    /\ UNCHANGED outsideUtils

NextUtils ==
    \/ \E str \in Strings, length \in Lengths, suffix \in Suffixes :
          CallTruncate(str, length, suffix)
    \/ \E userRole \in AskedRoles, permission \in AskedPermissions :
          CallHasPermission(userRole, permission)

----
(***************************************************************************)
(* dateUtils.getRelativeTime, dateUtils.isToday and numberUtils.clamp,     *)
(* called while the clock advances: src/unnamed/part_002. A date is its    *)
(* time value in milliseconds; the local time zone is UTC.                 *)
(***************************************************************************)

\* The instants the clock takes, in order: 0 s, 30 s, 90 s, 2 h, 26 h, 50 h.
Instants == {0, 30000, 90000, 7200000, 93600000, 180000000}

\* The dates the functions are called with: 0 s and 1 h.
Dates == {0, 3600000}

\* getRelativeTime: the seconds from the date to new Date(), in words.
getRelativeTime(date, clock) ==
    LET diffInSeconds == (clock - date) \div 1000 IN
    IF diffInSeconds < 60 THEN "just now"
    ELSE IF diffInSeconds < 3600
        THEN NumberToText(diffInSeconds \div 60) \o " minutes ago"
    ELSE IF diffInSeconds < 86400
        THEN NumberToText(diffInSeconds \div 3600) \o " hours ago"
    ELSE NumberToText(diffInSeconds \div 86400) \o " days ago"

\* Date.prototype.toDateString: the calendar day of a time value.
ToDateString(time) == time \div 86400000

\* isToday: the date and new Date() fall on the same calendar day.
isToday(date, clock) == ToDateString(clock) = ToDateString(date)

\* clamp: Math.min(Math.max(value, min), max).
clamp(value, min, max) ==
    LET lower == IF value >= min THEN value ELSE min
    IN  IF lower <= max THEN lower ELSE max

InitClock == util = NoCall /\ prev = NoCall /\ now = 0

\* Time passes: the clock moves to a later instant.
Advance(t) ==
    /\ t > now
    /\ now' = t
    /\ UNCHANGED <<outsideClock, util, prev>>

CallGetRelativeTime(date) ==
    /\ prev' = util
    /\ util' = [fn |-> "getRelativeTime", args |-> <<date>>,
                result |-> getRelativeTime(date, now)]
    /\ UNCHANGED <<outsideClock, now>>

CallIsToday(date) ==
    /\ prev' = util
    /\ util' = [fn |-> "isToday", args |-> <<date>>, result |-> isToday(date, now)]
    /\ UNCHANGED <<outsideClock, now>>

CallClamp(value, min, max) ==
    /\ prev' = util
    /\ util' = [fn |-> "clamp", args |-> <<value, min, max>>,
                result |-> clamp(value, min, max)]
    /\ UNCHANGED <<outsideClock, now>>

NextClock ==
    \/ \E t \in Instants : Advance(t)
    \/ \E date \in Dates : CallGetRelativeTime(date)
    \/ \E date \in Dates : CallIsToday(date)
    \/ \E value \in 0 .. 2, min \in 0 .. 1, max \in 1 .. 2 : CallClamp(value, min, max)

----
(***************************************************************************)
(* SecureStorage over window.localStorage: src/unnamed/part_001. A string  *)
(* is the sequence of its UTF-16 code units; a base64 text is the sequence *)
(* of the indices of its symbols in the base64 alphabet.                   *)
(***************************************************************************)

Str(chars) == [kind |-> "string", chars |-> chars]

\* The code units the model uses: '"', '\', 'a', 'e' with an acute accent
\* (Latin-1) and the euro sign (beyond Latin-1).
Quote == 34
Backslash == 92
LetterA == 97
EAcute == 233
Euro == 8364

\* The texts 'null' and 'undefined'.
NullText == <<110, 117, 108, 108>>
UndefinedText == <<117, 110, 100, 101, 102, 105, 110, 101, 100>>

\* The '=' that pads a base64 text.
Pad == 64

\* JSON.stringify of a string's characters: '"' and '\' are escaped.
RECURSIVE Escape(_)
Escape(chars) ==
    IF chars = <<>> THEN <<>>
    ELSE IF Head(chars) \in {Quote, Backslash}
        THEN <<Backslash, Head(chars)>> \o Escape(Tail(chars))
    ELSE <<Head(chars)>> \o Escape(Tail(chars))

\* JSON.stringify(value): the JSON text of the value, and undefined for undefined.
JSONStringify(value) ==
    CASE value = Undefined -> Undefined
      [] value = Null -> Str(NullText)
      [] OTHER -> Str(<<Quote>> \o Escape(value.chars) \o <<Quote>>)

\* The body of a JSON string literal is well formed: every '\' escapes a '"' or a
\* '\', and no '"' stands alone.
RECURSIVE WellEscaped(_)
WellEscaped(chars) ==
    IF chars = <<>> THEN TRUE
    ELSE IF Head(chars) = Backslash
        THEN /\ Len(chars) >= 2
             /\ chars[2] \in {Quote, Backslash}
             /\ WellEscaped(Tail(Tail(chars)))
    ELSE Head(chars) # Quote /\ WellEscaped(Tail(chars))

RECURSIVE Unescape(_)
Unescape(chars) ==
    IF chars = <<>> THEN <<>>
    ELSE IF Head(chars) = Backslash
        THEN <<chars[2]>> \o Unescape(Tail(Tail(chars)))
    ELSE <<Head(chars)>> \o Unescape(Tail(chars))

\* JSON.parse(text): the value of a JSON text, and a SyntaxError for any other text.
JSONParse(text) ==
    IF text = NullText THEN Returned(Null)
    ELSE IF /\ Len(text) >= 2
            /\ text[1] = Quote
            /\ text[Len(text)] = Quote
            /\ WellEscaped(SubSeq(text, 2, Len(text) - 1))
        THEN Returned(Str(Unescape(SubSeq(text, 2, Len(text) - 1))))
    ELSE Thrown("SyntaxError")

\* The base64 text of a sequence of bytes.
RECURSIVE Base64Encode(_)
Base64Encode(bytes) ==
    IF bytes = <<>> THEN <<>>
    ELSE IF Len(bytes) = 1
        THEN <<bytes[1] \div 4, (bytes[1] % 4) * 16, Pad, Pad>>
    ELSE IF Len(bytes) = 2
        THEN <<bytes[1] \div 4, (bytes[1] % 4) * 16 + bytes[2] \div 16,
               (bytes[2] % 16) * 4, Pad>>
    ELSE <<bytes[1] \div 4, (bytes[1] % 4) * 16 + bytes[2] \div 16,
           (bytes[2] % 16) * 4 + bytes[3] \div 64, bytes[3] % 64>>
         \o Base64Encode(SubSeq(bytes, 4, Len(bytes)))

\* The bytes of a base64 text.
RECURSIVE Base64Decode(_)
Base64Decode(symbols) ==
    IF symbols = <<>> THEN <<>>
    ELSE LET b1 == symbols[1] * 4 + symbols[2] \div 16
             b2 == (symbols[2] % 16) * 16 + symbols[3] \div 4
             b3 == (symbols[3] % 4) * 64 + symbols[4]
             rest == Base64Decode(SubSeq(symbols, 5, Len(symbols)))
         IN  IF symbols[3] = Pad THEN <<b1>> \o rest
             ELSE IF symbols[4] = Pad THEN <<b1, b2>> \o rest
             ELSE <<b1, b2, b3>> \o rest

\* btoa(data): the argument is turned to a string first; a code unit above 255
\* raises InvalidCharacterError.
btoa(data) ==
    LET chars == IF data = Undefined THEN UndefinedText ELSE data.chars IN
    IF \E i \in 1 .. Len(chars) : chars[i] > 255
        THEN Thrown("InvalidCharacterError")
    ELSE Returned(Str(Base64Encode(chars)))

\* atob(data): a text that is not base64 raises InvalidCharacterError.
atob(data) ==
    IF \/ Len(data.chars) % 4 # 0
       \/ \E i \in 1 .. Len(data.chars) :
              data.chars[i] = Pad /\ i < Len(data.chars) - 1
        THEN Thrown("InvalidCharacterError")
    ELSE Returned(Str(Base64Decode(data.chars)))

encrypt(data) == btoa(data)
decrypt(encryptedData) == atob(encryptedData)

\* SecureStorage.setItem(key, value): localStorage afterwards. An error of encrypt
\* is caught and logged, and nothing is stored.
setItem(storage, key, value) ==
    LET encryptedValue == encrypt(JSONStringify(value)) IN
    IF encryptedValue.kind = "throw" THEN storage
    ELSE [storage EXCEPT ![key] = encryptedValue.value]

\* SecureStorage.getItem(key): what the call returns. Every error is caught and
\* logged, and null returned.
getItem(storage, key) ==
    LET encryptedValue == storage[key] IN
    IF encryptedValue = Null \/ encryptedValue = Str(<<>>) THEN Returned(Null)
    ELSE LET decryptedValue == decrypt(encryptedValue) IN
         IF decryptedValue.kind = "throw" THEN Returned(Null)
         ELSE LET parsed == JSONParse(decryptedValue.value.chars) IN
              IF parsed.kind = "throw" THEN Returned(Null) ELSE parsed

\* SecureStorage.removeItem(key): localStorage afterwards.
removeItem(storage, key) == [storage EXCEPT ![key] = Null]

Keys == {"authToken", "accessToken", "refreshToken"}

\* The values setItem is called with: strings, null and undefined.
Values ==
    {Str(<<>>), Str(<<LetterA>>), Str(<<EAcute, LetterA>>), Str(<<Quote, Backslash>>),
     Str(<<Euro>>), Null, Undefined}

NoOperation == [fn |-> "none"]

InitStorage ==
    /\ localStorage = [k \in Keys |-> Null]
    /\ expected = [k \in Keys |-> Null]
    /\ got = NoOperation

SetItem(key, value) ==
    /\ localStorage' = setItem(localStorage, key, value)
    /\ expected' = [expected EXCEPT ![key] = value]
    /\ got' = [fn |-> "setItem", key |-> key, outcome |-> Returned(Undefined)]
    /\ UNCHANGED outsideStorage

GetItem(key) ==
    /\ got' = [fn |-> "getItem", key |-> key, outcome |-> getItem(localStorage, key)]
    /\ UNCHANGED <<outsideStorage, localStorage, expected>>

RemoveItem(key) ==
    /\ localStorage' = removeItem(localStorage, key)
    /\ expected' = [expected EXCEPT ![key] = Null]
    /\ got' = [fn |-> "removeItem", key |-> key, outcome |-> Returned(Undefined)]
    /\ UNCHANGED outsideStorage

NextStorage ==
    \/ \E key \in Keys, value \in Values : SetItem(key, value)
    \/ \E key \in Keys : GetItem(key)
    \/ \E key \in Keys : RemoveItem(key)

----
(***************************************************************************)
(* AuthService.login: the service class of src/unnamed/part_000, lines     *)
(* 30-55 ("class"), and auth.service.ts, lines 114-131 ("service"). A      *)
(* login runs to its await of authApi.login, and goes on when the API      *)
(* answers. One login is in flight at a time.                              *)
(***************************************************************************)

LetterB == 98

\* The tokens the API issues: JWTs, texts of ASCII characters.
Tokens == {Str(<<LetterA>>), Str(<<LetterB>>)}

Credentials ==
    {[email |-> "test@example.com", password |-> "password"],
     [email |-> "other@example.com", password |-> "secret"]}

Variants == {"class", "service"}

\* AuthResponse as each variant reads it.
Responses(variant) ==
    IF variant = "class"
        THEN {[token |-> t, user |-> u] : t \in Tokens, u \in Users}
    ELSE {[accessToken |-> a, refreshToken |-> r, user |-> u] :
              a \in Tokens, r \in Tokens, u \in Users}

\* The errors authApi.login rejects with.
ApiError(message) == [kind |-> "throw", name |-> "ApiError", message |-> message]
ApiErrors == {ApiError("Login failed"), ApiError("Invalid credentials")}

AuthError(message, cause) ==
    [kind |-> "throw", name |-> "AuthError", message |-> message, cause |-> cause]

\* What a login reads and writes.
ServiceState(tok, storage, context) ==
    [token |-> tok, storage |-> storage, context |-> context]

NoUser == [user |-> Null, authenticated |-> FALSE]

\* setToken keeping the token in the field only.
setTokenFieldOnly(state, tok) == [state EXCEPT !.token = tok]

\* AuthService.setToken (private).
setToken(state, tok) ==
    [state EXCEPT !.token = tok, !.storage = setItem(@, "authToken", tok)]

\* TokenService.setAccessToken and setRefreshToken.
setAccessToken(state, tok) ==
    [state EXCEPT !.storage = setItem(@, "accessToken", tok)]
setRefreshToken(state, tok) ==
    [state EXCEPT !.storage = setItem(@, "refreshToken", tok)]

\* authContext.setUser and authContext.setAuthenticated.
setUser(state, user) == [state EXCEPT !.context.user = user]
setAuthenticated(state, flag) == [state EXCEPT !.context.authenticated = flag]

\* The try block of login after its await: the response is stored and returned.
loginTry(variant, state, response) ==
    IF variant = "class"
        THEN [state |-> setToken(state, response.token),
              outcome |-> Returned(response)]
    ELSE [state |->
              setAuthenticated(
                  setUser(
                      setRefreshToken(
                          setAccessToken(state, response.accessToken),
                          response.refreshToken),
                      response.user),
                  TRUE),
          outcome |-> Returned(response)]

\* login resetting the session when the API call fails.
loginResetting(variant, state, answer) ==
    IF answer.kind = "throw"
        THEN [state |-> ServiceState(Null, [k \in Keys |-> Null], NoUser),
              outcome |-> AuthError("Login failed", answer)]
    ELSE loginTry(variant, state, answer.value)

\* login from the answer of authApi.login on: the state afterwards and what the
\* promise of login settles with. A rejection of the API is caught and thrown
\* again as AuthError('Login failed').
login(variant, state, answer) ==
    IF answer.kind = "throw"
        THEN [state |-> state, outcome |-> AuthError("Login failed", answer)]
    ELSE loginTry(variant, state, answer.value)

NoLogin == [variant |-> "none"]
NoResult == [variant |-> "none"]

InitService ==
    /\ localStorage = [k \in Keys |-> Null]
    /\ expected = [k \in Keys |-> Null]
    /\ got = NoOperation
    /\ token = Null
    /\ authContext = NoUser
    /\ pending = NoLogin
    /\ apiCalls = <<>>
    /\ loginResult = NoResult

\* login(credentials) up to its await: the API is called.
LoginStart(variant, credentials) ==
    /\ pending = NoLogin
    /\ pending' = [variant |-> variant, credentials |-> credentials,
                   before |-> ServiceState(token, localStorage, authContext)]
    /\ apiCalls' = <<credentials>>
    /\ loginResult' = NoResult
    /\ UNCHANGED <<outsideService, storeVars, token, authContext>>

\* The API has answered, and login runs to its end.
LoginFinish(answer) ==
    LET done == login(pending.variant,
                      ServiceState(token, localStorage, authContext), answer)
    IN  /\ token' = done.state.token
        /\ localStorage' = done.state.storage
        /\ authContext' = done.state.context
        /\ loginResult' = [variant |-> pending.variant,
                      credentials |-> pending.credentials,
                      before |-> pending.before,
                      answer |-> answer,
                      outcome |-> done.outcome]
        /\ pending' = NoLogin
        /\ UNCHANGED <<outsideService, expected, got, apiCalls>>

ApiResolves(response) ==
    /\ pending.variant \in Variants
    /\ response \in Responses(pending.variant)
    /\ LoginFinish(Returned(response))

ApiRejects(error) ==
    /\ pending.variant \in Variants
    /\ LoginFinish(error)

NextService ==
    \/ \E variant \in Variants, credentials \in Credentials :
           LoginStart(variant, credentials)
    \/ \E variant \in Variants : \E response \in Responses(variant) :
           ApiResolves(response)
    \/ \E error \in ApiErrors : ApiRejects(error)

----
(***************************************************************************)
(* authService.logout (src/unnamed/part_000, lines 72-79) and              *)
(* AuthService.refreshToken (lines 133-148). tokenService.clearToken and   *)
(* the logout method that refreshToken calls are not part of the source:   *)
(* clearToken is taken to remove the token from where AuthService.setToken *)
(* stores it, and this.logout() to be the logout of lines 72-79.           *)
(***************************************************************************)

LogoutCall == [api |-> "logout"]
RefreshCall(tok) == [api |-> "refreshToken", refreshToken |-> tok]

\* tokenService.clearToken.
clearToken(state) ==
    [state EXCEPT !.token = Null, !.storage = removeItem(@, "authToken")]

\* logout from the answer of authApi.logout on: the token is cleared after a
\* successful answer; an error is caught and logged. The promise resolves.
logout(state, answer) ==
    IF answer.kind = "throw"
        THEN [state |-> state, outcome |-> Returned(Undefined)]
    ELSE [state |-> clearToken(state), outcome |-> Returned(Undefined)]

\* TokenService.getRefreshToken.
getRefreshToken(state) == getItem(state.storage, "refreshToken").value

\* if (!refreshToken): null and the empty string count as no token.
NoToken(tok) == tok = Null \/ tok = Str(<<>>)

\* refreshToken that leaves the session alone when it fails.
refreshTokenNoLogout(state, answer) ==
    IF answer.kind = "throw"
        THEN [state |-> state, logout |-> FALSE,
              outcome |-> AuthError("Token refresh failed", answer)]
    ELSE [state |-> setAccessToken(state, answer.value.accessToken), logout |-> FALSE,
          outcome |-> Returned(answer.value.accessToken)]

\* refreshToken from the point on where its try block has an answer: the error
\* thrown for a missing refresh token, or what authApi.refreshToken settled with.
\* Any error is caught: logout is called and AuthError('Token refresh failed')
\* thrown.
refreshToken(state, answer) ==
    IF answer.kind = "throw"
        THEN [state |-> state, logout |-> TRUE,
              outcome |-> AuthError("Token refresh failed", answer)]
    ELSE [state |-> setAccessToken(state, answer.value.accessToken), logout |-> FALSE,
          outcome |-> Returned(answer.value.accessToken)]

RefreshResponses == {[accessToken |-> a] : a \in Tokens}

PendingLogout == [variant |-> "logout"]

\* logout() up to its await: the API is called.
LogoutStart ==
    /\ pending = NoLogin
    /\ pending' = PendingLogout
    /\ apiCalls' = <<LogoutCall>>
    /\ loginResult' = NoResult
    /\ UNCHANGED <<outsideService, storeVars, token, authContext>>

\* authApi.logout has answered, and logout runs to its end.
LogoutFinish(answer) ==
    LET done == logout(ServiceState(token, localStorage, authContext), answer)
    IN  /\ pending = PendingLogout
        /\ token' = done.state.token
        /\ localStorage' = done.state.storage
        /\ authContext' = done.state.context
        /\ loginResult' = [variant |-> "logout", answer |-> answer,
                           outcome |-> done.outcome]
        /\ pending' = NoLogin
        /\ UNCHANGED <<outsideService, expected, got, apiCalls>>

LogoutResolves == LogoutFinish(Returned(Undefined)) /\ pending = PendingLogout

LogoutRejects(error) == LogoutFinish(error) /\ pending = PendingLogout

\* refreshToken() up to its await, or to its end when no refresh token is stored.
RefreshStart ==
    LET state == ServiceState(token, localStorage, authContext)
        tok == getRefreshToken(state)
    IN  /\ pending = NoLogin
        /\ IF NoToken(tok)
               THEN /\ apiCalls' = <<LogoutCall>>
                    /\ LET done == refreshToken(
                                       state,
                                       AuthError("No refresh token available", Undefined))
                       IN  /\ token' = done.state.token
                           /\ localStorage' = done.state.storage
                           /\ authContext' = done.state.context
                           /\ loginResult' =
                                  [variant |-> "refresh", before |-> state,
                                   answer |-> AuthError("No refresh token available",
                                                        Undefined),
                                   logout |-> done.logout, outcome |-> done.outcome]
                           /\ pending' = IF done.logout THEN PendingLogout ELSE NoLogin
               ELSE /\ pending' = [variant |-> "refresh", before |-> state]
                    /\ apiCalls' = <<RefreshCall(tok)>>
                    /\ loginResult' = NoResult
                    /\ UNCHANGED <<token, localStorage, authContext>>
        /\ UNCHANGED <<outsideService, expected, got>>

\* authApi.refreshToken has answered.
RefreshSettles(answer) ==
    LET done == refreshToken(ServiceState(token, localStorage, authContext), answer)
    IN  /\ pending.variant = "refresh"
        /\ token' = done.state.token
        /\ localStorage' = done.state.storage
        /\ authContext' = done.state.context
        /\ loginResult' = [variant |-> "refresh", before |-> pending.before,
                           answer |-> answer, logout |-> done.logout,
                           outcome |-> done.outcome]
        /\ pending' = IF done.logout THEN PendingLogout ELSE NoLogin
        /\ apiCalls' = IF done.logout THEN Append(apiCalls, LogoutCall) ELSE apiCalls
        /\ UNCHANGED <<outsideService, expected, got>>

RefreshResolves(response) == RefreshSettles(Returned(response)) /\ pending # NoLogin

RefreshRejects(error) == RefreshSettles(error) /\ pending # NoLogin

NextSession ==
    \/ \E variant \in Variants, credentials \in Credentials :
           LoginStart(variant, credentials)
    \/ \E variant \in Variants : \E response \in Responses(variant) :
           ApiResolves(response)
    \/ \E error \in ApiErrors : ApiRejects(error)
    \/ LogoutStart
    \/ LogoutResolves
    \/ \E error \in ApiErrors : LogoutRejects(error)
    \/ RefreshStart
    \/ \E response \in RefreshResponses : RefreshResolves(response)
    \/ \E error \in ApiErrors : RefreshRejects(error)

----
(***************************************************************************)
(* arrayUtils and objectUtils: src/unnamed/part_002, lines 150-221. The    *)
(* heap is the sequence of the arrays and objects that exist; a reference  *)
(* is an index into it, and allocation appends. Each utility yields the    *)
(* heap after the call and the value returned.                             *)
(***************************************************************************)

Num(n) == [kind |-> "number", n |-> n]
Ref(r) == [kind |-> "ref", ref |-> r]
Arr(items) == [kind |-> "array", items |-> items]
Obj(props) == [kind |-> "object", props |-> props]
SetOf(items) == [kind |-> "set", items |-> items]

Alloc(h, cell) == [heap |-> Append(h, cell), value |-> Ref(Len(h) + 1)]
Write(h, r, cell) == [h EXCEPT ![r] = cell]

\* obj[key] = value and delete obj[key] on the object at r.
SetProp(h, r, key, value) ==
    Write(h, r, Obj([k \in DOMAIN h[r].props \cup {key} |->
                        IF k = key THEN value ELSE h[r].props[k]]))
DeleteProp(h, r, key) ==
    Write(h, r, Obj([k \in DOMAIN h[r].props \ {key} |-> h[r].props[k]]))

\* array.push(item) on the array at r.
Push(h, r, item) == Write(h, r, Arr(Append(h[r].items, item)))

\* The items of new Set(array): each value once, in the order of first occurrence.
RECURSIVE Dedupe(_)
Dedupe(items) ==
    IF items = <<>> THEN <<>>
    ELSE LET front == Dedupe(SubSeq(items, 1, Len(items) - 1))
             last == items[Len(items)]
         IN  IF \E i \in 1 .. Len(front) : front[i] = last
                 THEN front ELSE Append(front, last)

\* unique: [...new Set(array)].
unique(h, array) ==
    LET set == Alloc(h, SetOf(Dedupe(h[array.ref].items)))
    IN  Alloc(set.heap, Arr(set.heap[set.value.ref].items))

\* The reduce of groupBy; the key callback reads the property key of the item.
RECURSIVE GroupReduce(_, _, _, _)
GroupReduce(h, groups, items, key) ==
    IF items = <<>> THEN [heap |-> h, value |-> groups]
    ELSE LET item == Head(items)
             groupKey == NumberToText(h[item.ref].props[key].n)
             fresh == Alloc(h, Arr(<<>>))
             h1 == IF groupKey \in DOMAIN h[groups.ref].props THEN h
                   ELSE SetProp(fresh.heap, groups.ref, groupKey, fresh.value)
             group == h1[groups.ref].props[groupKey]
         IN  GroupReduce(Push(h1, group.ref, item), groups, Tail(items), key)

groupBy(h, array, key) ==
    LET groups == Alloc(h, Obj(<<>>))
    IN  GroupReduce(groups.heap, groups.value, groups.heap[array.ref].items, key)

\* The comparator of sortBy.
Compare(h, a, b, key, direction) ==
    LET aVal == h[a.ref].props[key].n
        bVal == h[b.ref].props[key].n
    IN  IF aVal < bVal THEN (IF direction = "asc" THEN -1 ELSE 1)
        ELSE IF aVal > bVal THEN (IF direction = "asc" THEN 1 ELSE -1)
        ELSE 0

\* Array.prototype.sort with the comparator: a stable sort.
RECURSIVE SortItems(_, _, _, _)
SortItems(h, items, key, direction) ==
    IF items = <<>> THEN <<>>
    ELSE LET front == SortItems(h, SubSeq(items, 1, Len(items) - 1), key, direction)
             last == items[Len(items)]
             keep == {i \in 1 .. Len(front) :
                          Compare(h, front[i], last, key, direction) <= 0}
             n == Cardinality(keep)
         IN  SubSeq(front, 1, n) \o <<last>> \o SubSeq(front, n + 1, Len(front))

\* sortBy sorting the array it was given.
sortByInPlace(h, array, key, direction) ==
    [heap |-> Write(h, array.ref, Arr(SortItems(h, h[array.ref].items, key, direction))),
     value |-> array]

\* sortBy: [...array].sort(comparator).
sortBy(h, array, key, direction) ==
    LET copy == Alloc(h, Arr(h[array.ref].items))
        h1 == copy.heap
    IN  [heap |-> Write(h1, copy.value.ref,
                        Arr(SortItems(h1, h1[copy.value.ref].items, key, direction))),
         value |-> copy.value]

\* The loop of chunk from index i on.
RECURSIVE ChunkLoop(_, _, _, _, _)
ChunkLoop(h, chunks, array, i, size) ==
    LET items == h[array.ref].items IN
    IF ~(i < Len(items)) THEN [heap |-> h, value |-> chunks]
    ELSE LET end == IF i + size < Len(items) THEN i + size ELSE Len(items)
             slice == Alloc(h, Arr(SubSeq(items, i + 1, end)))
         IN  ChunkLoop(Push(slice.heap, chunks.ref, slice.value), chunks, array,
                       i + size, size)

chunk(h, array, size) ==
    LET chunks == Alloc(h, Arr(<<>>))
    IN  ChunkLoop(chunks.heap, chunks.value, array, 0, size)

\* JSON.stringify of a value of the heap: the structure its JSON text spells out.
RECURSIVE Serialize(_, _)
Serialize(h, value) ==
    IF value.kind = "number" THEN value
    ELSE IF h[value.ref].kind = "array"
        THEN Arr([i \in 1 .. Len(h[value.ref].items) |->
                     Serialize(h, h[value.ref].items[i])])
    ELSE Obj([k \in DOMAIN h[value.ref].props |-> Serialize(h, h[value.ref].props[k])])

\* JSON.parse: every array and object of the text is allocated anew.
RECURSIVE Revive(_, _)
RECURSIVE ReviveItems(_, _, _)
RECURSIVE ReviveProps(_, _, _, _)
Revive(h, tree) ==
    IF tree.kind = "number" THEN [heap |-> h, value |-> tree]
    ELSE IF tree.kind = "array"
        THEN LET items == ReviveItems(h, tree.items, <<>>)
             IN  Alloc(items.heap, Arr(items.value))
    ELSE LET props == ReviveProps(h, tree.props, DOMAIN tree.props, <<>>)
         IN  Alloc(props.heap, Obj(props.value))

ReviveItems(h, trees, done) ==
    IF Len(done) = Len(trees) THEN [heap |-> h, value |-> done]
    ELSE LET item == Revive(h, trees[Len(done) + 1])
         IN  ReviveItems(item.heap, trees, Append(done, item.value))

ReviveProps(h, trees, keys, done) ==
    IF keys = {} THEN [heap |-> h, value |-> done]
    ELSE LET key == CHOOSE k \in keys : TRUE
             prop == Revive(h, trees[key])
         IN  ReviveProps(prop.heap, trees, keys \ {key},
                         [k \in DOMAIN done \cup {key} |->
                             IF k = key THEN prop.value ELSE done[k]])

\* deepClone: JSON.parse(JSON.stringify(obj)).
deepClone(h, obj) == Revive(h, Serialize(h, obj))

\* { ...acc, ...source }.
Spread(acc, source) ==
    [k \in DOMAIN acc \cup DOMAIN source |-> IF k \in DOMAIN source THEN source[k] ELSE acc[k]]

\* merge: sources.reduce((acc, source) => ({ ...acc, ...source }), target).
RECURSIVE merge(_, _, _)
merge(h, target, sources) ==
    IF sources = <<>> THEN [heap |-> h, value |-> target]
    ELSE LET acc == Alloc(h, Obj(Spread(h[target.ref].props, h[Head(sources).ref].props)))
         IN  merge(acc.heap, acc.value, Tail(sources))

\* The forEach of pick.
RECURSIVE PickEach(_, _, _, _)
PickEach(h, picked, obj, keys) ==
    IF keys = <<>> THEN [heap |-> h, value |-> picked]
    ELSE LET key == Head(keys)
             h1 == IF key \in DOMAIN h[obj.ref].props
                       THEN SetProp(h, picked.ref, key, h[obj.ref].props[key])
                   ELSE h
         IN  PickEach(h1, picked, obj, Tail(keys))

pick(h, obj, keys) ==
    LET picked == Alloc(h, Obj(<<>>))
    IN  PickEach(picked.heap, picked.value, obj, keys)

\* The forEach of omit.
RECURSIVE OmitEach(_, _, _)
OmitEach(h, kept, keys) ==
    IF keys = <<>> THEN [heap |-> h, value |-> kept]
    ELSE OmitEach(DeleteProp(h, kept.ref, Head(keys)), kept, Tail(keys))

omit(h, obj, keys) ==
    LET kept == Alloc(h, Obj(h[obj.ref].props))
    IN  OmitEach(kept.heap, kept.value, keys)

\* What the caller holds: two items, an array of them, and a partial object.
ItemProps == {"id", "group"}
InputArray == Ref(3)
InputObjects == {Ref(1), Ref(2), Ref(4)}
NumInputs == 4

RECURSIVE ItemLists(_)
ItemLists(n) ==
    IF n = 0 THEN {<<>>}
    ELSE ItemLists(n - 1)
             \cup {Append(l, r) : l \in {x \in ItemLists(n - 1) : Len(x) = n - 1},
                                  r \in {Ref(1), Ref(2)}}

KeyLists == {<<>>, <<"id">>, <<"group">>, <<"id", "group">>, <<"name">>}
SourceLists == {<<>>, <<Ref(2)>>, <<Ref(4)>>, <<Ref(4), Ref(2)>>}
ChunkSizes == 1 .. 3

NoUtilityCall == [fn |-> "none"]

InitHeap ==
    /\ \E id1 \in 1 .. 2, id2 \in 1 .. 2, group2 \in 1 .. 2 :
       \E items \in ItemLists(MaxItems) :
           heap = <<Obj([id |-> Num(id1), group |-> Num(1)]),
                    Obj([id |-> Num(id2), group |-> Num(group2)]),
                    Arr(items),
                    Obj([group |-> Num(3)])>>
    /\ call = NoUtilityCall

\* After a call the caller keeps the objects it held, as the call left them, and
\* the value returned; what the call allocated is garbage afterwards.
Kept(done) == SubSeq(done.heap, 1, NumInputs)

CallRecord(fn, args, done) ==
    [fn |-> fn, args |-> args, before |-> heap, returned |-> done.value,
     result |-> Serialize(done.heap, done.value)]

CallUnique ==
    LET done == unique(heap, InputArray) IN
    /\ heap' = Kept(done)
    /\ call' = CallRecord("unique", <<InputArray>>, done)
    /\ UNCHANGED outsideHeap

CallGroupBy(key) ==
    LET done == groupBy(heap, InputArray, key) IN
    /\ heap' = Kept(done)
    /\ call' = CallRecord("groupBy", <<InputArray, key>>, done)
    /\ UNCHANGED outsideHeap

CallSortBy(key, direction) ==
    LET done == sortBy(heap, InputArray, key, direction) IN
    /\ heap' = Kept(done)
    /\ call' = CallRecord("sortBy", <<InputArray, key, direction>>, done)
    /\ UNCHANGED outsideHeap

CallChunk(size) ==
    LET done == chunk(heap, InputArray, size) IN
    /\ heap' = Kept(done)
    /\ call' = CallRecord("chunk", <<InputArray, size>>, done)
    /\ UNCHANGED outsideHeap

CallDeepClone(obj) ==
    LET done == deepClone(heap, obj) IN
    /\ heap' = Kept(done)
    /\ call' = CallRecord("deepClone", <<obj>>, done)
    /\ UNCHANGED outsideHeap

CallMerge(target, sources) ==
    LET done == merge(heap, target, sources) IN
    /\ heap' = Kept(done)
    /\ call' = CallRecord("merge", <<target, sources>>, done)
    /\ UNCHANGED outsideHeap

CallPick(obj, keys) ==
    LET done == pick(heap, obj, keys) IN
    /\ heap' = Kept(done)
    /\ call' = CallRecord("pick", <<obj, keys>>, done)
    /\ UNCHANGED outsideHeap

CallOmit(obj, keys) ==
    LET done == omit(heap, obj, keys) IN
    /\ heap' = Kept(done)
    /\ call' = CallRecord("omit", <<obj, keys>>, done)
    /\ UNCHANGED outsideHeap

NextHeap ==
    \/ CallUnique
    \/ \E key \in ItemProps : CallGroupBy(key)
    \/ \E key \in ItemProps, direction \in {"asc", "desc"} : CallSortBy(key, direction)
    \/ \E size \in ChunkSizes : CallChunk(size)
    \/ \E obj \in InputObjects \cup {InputArray} : CallDeepClone(obj)
    \/ \E target \in {Ref(1), Ref(4)}, sources \in SourceLists : CallMerge(target, sources)
    \/ \E obj \in InputObjects, keys \in KeyLists : CallPick(obj, keys)
    \/ \E obj \in InputObjects, keys \in KeyLists : CallOmit(obj, keys)

----
(***************************************************************************)
(* The hook useExample: src/src/hooks/README.md, lines 56-85. A set-state  *)
(* call queues an update, and the next render applies the queue in order.  *)
(* The effect of a render runs before the hook renders again.              *)
(***************************************************************************)

Params == {"test-param", "other-param"}

\* What apiCall(param) resolves with, and the messages it rejects with.
DataFor(p) == [kind |-> "data", param |-> p]
ErrorMessages == {"Network Error"}

\* useState(null), useState(false), useState<string | null>(null).
InitialHookState == [data |-> Null, loading |-> FALSE, error |-> Null]

SetData(value) == [slot |-> "data", value |-> value]
SetLoading(value) == [slot |-> "loading", value |-> value]
SetError(value) == [slot |-> "error", value |-> value]

\* The state with the queued updates applied, first to last.
RECURSIVE ApplyUpdates(_, _)
ApplyUpdates(state, updates) ==
    IF updates = <<>> THEN state
    ELSE ApplyUpdates([state EXCEPT ![Head(updates).slot] = Head(updates).value],
                      Tail(updates))

\* fetchData never announcing that it loads.
fetchDataSilent == <<SetError(Null)>>

\* fetchData up to its await: setLoading(true), setError(null).
fetchData == <<SetLoading(TRUE), SetError(Null)>>

\* fetchData after its await, apiCall having resolved: the try block's setData and
\* the finally block's setLoading(false).
fetchDataResolved(value) == <<SetData(value), SetLoading(FALSE)>>

\* fetchData after its await, apiCall having rejected: the catch block's setError
\* and the finally block's setLoading(false).
fetchDataRejected(message) == <<SetError(message), SetLoading(FALSE)>>

NotRendered == [kind |-> "none"]

\* A call of apiCall(p) in flight; id numbers the fetches in the order they started.
Fetch(id, p) == [id |-> id, param |-> p]

\* The object a render returns; refetch is the fetchData of that render's param.
HookReturn(state, p) ==
    [kind |-> "return", data |-> state.data, loading |-> state.loading,
     error |-> state.error, refetch |-> p]

InitHook ==
    /\ hookState = InitialHookState
    /\ hookUpdates = <<>>
    /\ hookReturn = NotRendered
    /\ hookParam = "test-param"
    /\ effectPending = FALSE
    /\ fetches = {}
    /\ started = 0
    /\ settledFetches = <<>>
    /\ renders = 0

Counted == IF renders < MaxRenders THEN renders + 1 ELSE renders

\* renderHook(() => useExample(p)): the first render; its effect is due.
FirstRender(p) ==
    /\ renders = 0
    /\ hookParam' = p
    /\ hookReturn' = HookReturn(hookState, p)
    /\ effectPending' = TRUE
    /\ renders' = Counted
    /\ UNCHANGED <<outsideHook, hookState, hookUpdates, fetches, started, settledFetches>>

\* A call of fetchData for the param p: the updates before the await are queued
\* and apiCall(p) is in flight.
StartFetch(p) ==
    /\ started < MaxFetches
    /\ hookUpdates' = hookUpdates \o fetchData
    /\ started' = started + 1
    /\ fetches' = fetches \cup {Fetch(started + 1, p)}

\* The effect of the last render: fetchData().
RunEffect ==
    /\ effectPending
    /\ StartFetch(hookParam)
    /\ effectPending' = FALSE
    /\ UNCHANGED <<outsideHook, hookState, hookReturn, hookParam, settledFetches, renders>>

\* refetch() of the object the last render returned.
Refetch ==
    /\ hookReturn # NotRendered
    /\ ~effectPending
    /\ StartFetch(hookReturn.refetch)
    /\ UNCHANGED <<outsideHook, hookState, hookReturn, hookParam, effectPending,
                   settledFetches, renders>>

\* The hook renders again, because of queued updates, with the same param.
Rerender ==
    /\ hookReturn # NotRendered
    /\ ~effectPending
    /\ hookUpdates # <<>>
    /\ hookState' = ApplyUpdates(hookState, hookUpdates)
    /\ hookUpdates' = <<>>
    /\ hookReturn' = HookReturn(hookState', hookParam)
    /\ renders' = Counted
    /\ UNCHANGED <<outsideHook, hookParam, effectPending, fetches, started, settledFetches>>

\* The hook renders again with another param: fetchData changes, and the effect
\* is due again.
ChangeParam(p) ==
    /\ hookReturn # NotRendered
    /\ ~effectPending
    /\ p # hookParam
    /\ started < MaxFetches
    /\ hookParam' = p
    /\ hookState' = ApplyUpdates(hookState, hookUpdates)
    /\ hookUpdates' = <<>>
    /\ hookReturn' = HookReturn(hookState', p)
    /\ effectPending' = TRUE
    /\ renders' = Counted
    /\ UNCHANGED <<outsideHook, fetches, started, settledFetches>>

\* apiCall resolves for the fetch f.
FetchResolves(f) ==
    /\ f \in fetches
    /\ fetches' = fetches \ {f}
    /\ hookUpdates' = hookUpdates \o fetchDataResolved(DataFor(f.param))
    /\ settledFetches' = Append(settledFetches, [id |-> f.id, param |-> f.param, ok |-> TRUE])
    /\ UNCHANGED <<outsideHook, hookState, hookReturn, hookParam, effectPending,
                   started, renders>>

\* apiCall rejects for the fetch f.
FetchRejects(f, message) ==
    /\ f \in fetches
    /\ fetches' = fetches \ {f}
    /\ hookUpdates' = hookUpdates \o fetchDataRejected(message)
    /\ settledFetches' = Append(settledFetches, [id |-> f.id, param |-> f.param, ok |-> FALSE])
    /\ UNCHANGED <<outsideHook, hookState, hookReturn, hookParam, effectPending,
                   started, renders>>

NextHook ==
    \/ \E p \in Params : FirstRender(p)
    \/ RunEffect
    \/ Refetch
    \/ Rerender
    \/ \E p \in Params : ChangeParam(p)
    \/ \E id \in 1 .. MaxFetches, p \in Params : FetchResolves(Fetch(id, p))
    \/ \E id \in 1 .. MaxFetches, p \in Params, message \in ErrorMessages :
           FetchRejects(Fetch(id, p), message)

----
(***************************************************************************)
(* The specifications.                                                     *)
(***************************************************************************)

\* The variables of a part no action of the specification touches.
IdleApp ==
    /\ hooks = [i \in Instances |-> <<>>]
    /\ queue = [i \in Instances |-> 0]
    /\ view = [i \in Instances |-> NoView]
    /\ crashed = [i \in Instances |-> FALSE]
    /\ clicks = [i \in Instances |-> 0]
    /\ lost = [i \in Instances |-> 0]

IdleRoutes ==
    /\ ctx = Undefined
    /\ location = Location("/", NoFrom)
    /\ requested = "/"
    /\ screen = Blank
    /\ settled = FALSE
    /\ redirects = 0
    /\ intended = NoFrom
    /\ loggedIn = FALSE

IdleUtils == util = NoCall

IdleClock == prev = NoCall /\ now = 0

IdleStorage == InitStorage

IdleService ==
    /\ token = Null
    /\ authContext = NoUser
    /\ pending = NoLogin
    /\ apiCalls = <<>>
    /\ loginResult = NoResult

IdleHeap == heap = <<>> /\ call = NoUtilityCall

IdleHook == InitHook

IdleLib == IdleUtils /\ IdleClock /\ IdleStorage /\ IdleService /\ IdleHeap /\ IdleHook

\* App on its own: the default specification.
Init == InitApp /\ IdleRoutes /\ probe = NoProbe /\ IdleLib
Next == NextApp
Spec == Init /\ [][Next]_vars

\* The router with its guards, the auth state changing under it.
StartRoutes == IdleApp /\ InitRoutes /\ probe = NoProbe /\ IdleLib
SpecRoutes == StartRoutes /\ [][NextRoutes]_vars

\* The router under an auth state that stays as it is: URLs are opened and the
\* routes render, and nobody logs in.
NextRedirects ==
    \/ \E p \in Paths : Request(p)
    \/ RenderRoutes
SpecRedirects == StartRoutes /\ [][NextRedirects]_vars

\* The auth state under logins: the AuthProvider's, starting as renderWithAuth
\* sets it up (isAuthenticated: !!user) and changed by its login, with the routes
\* rendering; and the authContext that the login of auth.service.ts updates.
StartAuth ==
    /\ IdleApp /\ probe = NoProbe
    /\ \E user \in Users \cup {Null}, p \in Paths :
           /\ ctx = AuthValue(user, user # Null, FALSE)
           /\ location = Location(p, NoFrom)
           /\ requested = p
    /\ screen = Blank
    /\ settled = FALSE
    /\ redirects = 0
    /\ intended = NoFrom
    /\ loggedIn = FALSE
    /\ IdleUtils /\ IdleClock /\ InitService /\ IdleHeap /\ IdleHook
NextAuth ==
    \/ RenderRoutes
    \/ \E u \in Users : LoginSucceeds(u)
    \/ LoginFails
    \/ \E credentials \in Credentials : LoginStart("service", credentials)
    \/ \E response \in Responses("service") : ApiResolves(response)
    \/ \E error \in ApiErrors : ApiRejects(error)
SpecAuth == StartAuth /\ [][NextAuth]_vars

\* The guards and useAuth, each rendered on its own.
StartGuards == IdleApp /\ InitGuards /\ probe = NoProbe /\ IdleLib
SpecGuards == StartGuards /\ [][NextGuards]_vars

\* The utilities, called with every argument of their input sets.
StartUtils ==
    /\ IdleApp /\ IdleRoutes /\ probe = NoProbe
    /\ InitUtils /\ IdleClock /\ IdleStorage /\ IdleService /\ IdleHeap /\ IdleHook
SpecUtils == StartUtils /\ [][NextUtils]_vars

\* The utilities that read the clock, and one that does not, called again and
\* again while time passes.
StartClock ==
    /\ IdleApp /\ IdleRoutes /\ probe = NoProbe
    /\ InitClock /\ IdleStorage /\ IdleService /\ IdleHeap /\ IdleHook
SpecClock == StartClock /\ [][NextClock]_vars

\* SecureStorage used on its own, with any values under two keys.
StartStorage ==
    /\ IdleApp /\ IdleRoutes /\ probe = NoProbe
    /\ IdleUtils /\ IdleClock /\ InitStorage /\ IdleService /\ IdleHeap /\ IdleHook
SpecStorage == StartStorage /\ [][NextStorage]_vars

\* Logins through both variants of AuthService, answered either way by the API.
StartService ==
    /\ IdleApp /\ IdleRoutes /\ probe = NoProbe
    /\ IdleUtils /\ IdleClock /\ InitService /\ IdleHeap /\ IdleHook
SpecService == StartService /\ [][NextService]_vars

\* The session: logins, logouts and token refreshes, one call of the service in
\* flight at a time, the API answering either way.
SpecSession == StartService /\ [][NextSession]_vars

\* arrayUtils and objectUtils called, one after the other, on the same inputs.
StartHeap ==
    /\ IdleApp /\ IdleRoutes /\ probe = NoProbe
    /\ IdleUtils /\ IdleClock /\ IdleStorage /\ IdleService /\ InitHeap /\ IdleHook
SpecHeap == StartHeap /\ [][NextHeap]_vars

\* One instance of useExample: rendered, re-rendered with the same or another
\* param, refetched, its fetches settling in any order.
StartHook ==
    /\ IdleApp /\ IdleRoutes /\ probe = NoProbe
    /\ IdleUtils /\ IdleClock /\ IdleStorage /\ IdleService /\ IdleHeap /\ InitHook
SpecHook == StartHook /\ [][NextHook]_vars

----
(***************************************************************************)
(* Properties of App, under Spec.                                          *)
(***************************************************************************)

IsMounted(i) == hooks[i] # <<>>

\* The count of a mounted instance as its last render returned it.
RenderedCount(i) == hooks[i][1]

\* The button's text for a count, digit by digit (counts below 100).
ExpectedLabel(n) ==
    "count is " \o (IF n < 10 THEN DigitChar(n) ELSE DigitChar(n \div 10) \o DigitChar(n % 10))

C1_StateOk ==
    \A i \in Instances : IsMounted(i) =>
        /\ RenderedCount(i) \in Nat
        /\ RenderedCount(i) + queue[i] = clicks[i]
        /\ queue[i] = 0 => RenderedCount(i) = clicks[i]
        /\ view[i].button = ExpectedLabel(RenderedCount(i))

C1_StepOk ==
    \A i \in Instances : (IsMounted(i) /\ hooks'[i] # <<>>) =>
        /\ clicks'[i] \in {clicks[i], clicks[i] + 1}
        /\ hooks'[i][1] + queue'[i] =
              hooks[i][1] + queue[i] + (clicks'[i] - clicks[i])
        /\ hooks'[i][1] >= hooks[i][1]

\* C1: every click on the button increases count by exactly 1 and nothing else
\* changes it. In every state a mounted instance's count (the rendered state plus
\* the updaters its clicks have enqueued for the next render) equals the number of
\* clicks handled since the mount, the rendered count equals it once the render
\* has run, it is a natural number that never decreases, and the button rendered
\* for a count reads "count is <count>".
C1_CountIsClicks == []C1_StateOk /\ [][C1_StepOk]_vars

C1_Witness ==
    \E i \in Instances :
        /\ IsMounted(i) /\ clicks[i] = 2 /\ queue[i] = 0
        /\ view[i].button = "count is 2"

\* C2: App keeps no persisted state. Every mount, a remount after clicks and an
\* unmount included, starts at count 0 with nothing enqueued and the button reading
\* "count is 0", and an unmounted instance holds no count at all.
C2_MountStartsAtZero ==
    [][\A i \in Instances :
        /\ (~IsMounted(i) /\ hooks'[i] # <<>>) =>
              /\ hooks'[i] = <<0>>
              /\ queue'[i] = 0
              /\ view'[i].button = "count is 0"
        /\ (IsMounted(i) /\ hooks'[i] = <<>>) =>
              /\ queue'[i] = 0
              /\ view'[i] = NoView]_vars

C2_Witness ==
    \E i \in Instances :
        /\ lost[i] = 2
        /\ hooks[i] = <<0>> /\ queue[i] = 0 /\ clicks[i] = 0
        /\ view[i].button = "count is 0"

\* C3: App has no error path. In every reachable state no instance has crashed,
\* every mounted instance shows its element, a render is enabled for it and so is
\* a click (below the model's bound on clicks), and some action is enabled: no
\* error state and no stuck state is reachable.
C3_NoErrorPath ==
    /\ \A i \in Instances :
        /\ ~crashed[i]
        /\ IsMounted(i) =>
              /\ view[i].mounted
              /\ RenderedCount(i) \in Nat
              /\ ENABLED Render(i)
              /\ clicks[i] < MaxClicks => ENABLED Click(i)
        /\ ~IsMounted(i) => ENABLED Mount(i)
    /\ ENABLED Next

C3_Witness ==
    /\ \A i \in Instances : IsMounted(i) /\ ~crashed[i]
    /\ \E i \in Instances : clicks[i] = 2 /\ queue[i] = 0 /\ RenderedCount(i) = 2

\* What of an element is the same for every count.
StaticMarkup(v) == [links |-> v.links, heading |-> v.heading, hint |-> v.hint, docs |-> v.docs]

\* C4: the counter is local to a mounted instance. A click in one instance leaves
\* every other instance (its state, its queue, what it shows) unchanged and changes
\* nothing of its own but its count; a render of one instance changes no other
\* instance; and the links, the heading and the paragraphs shown are the same in
\* every state.
C4_CounterIsLocal ==
    [][\A i \in Instances :
        /\ Click(i) =>
              /\ \A j \in Instances \ {i} :
                    hooks'[j] = hooks[j] /\ queue'[j] = queue[j] /\ view'[j] = view[j]
              /\ hooks'[i] = hooks[i] /\ view'[i] = view[i]
              /\ queue'[i] = queue[i] + 1
        /\ Render(i) =>
              \A j \in Instances \ {i} :
                    hooks'[j] = hooks[j] /\ queue'[j] = queue[j] /\ view'[j] = view[j]
        /\ view'[i].mounted =>
              StaticMarkup(view'[i]) =
                 [links |-> <<"https://vite.dev", "https://react.dev">>,
                  heading |-> "Vite + React",
                  hint |-> "Edit src/App.tsx and save to test HMR",
                  docs |-> "Click on the Vite and React logos to learn more"]]_vars

C4_Witness ==
    \E i, j \in Instances :
        /\ i # j /\ IsMounted(i) /\ IsMounted(j)
        /\ clicks[i] = 2 /\ RenderedCount(i) = 2
        /\ clicks[j] = 0 /\ RenderedCount(j) = 0 /\ queue[j] = 0
        /\ view[i].button = "count is 2" /\ view[j].button = "count is 0"

\* C19: no click is lost to batching. The clicks handled since the last render
\* are all enqueued (the rendered count plus the queue is the number of clicks),
\* and a render that finds k updaters enqueued over the rendered count c returns
\* c + k and shows "count is <c + k>", whatever the order of clicks and renders.
C19_NoClickLost ==
    /\ [](\A i \in Instances : IsMounted(i) => RenderedCount(i) + queue[i] = clicks[i])
    /\ [][\A i \in Instances : (Render(i) /\ hooks'[i] # <<>>) =>
            /\ hooks'[i] = <<hooks[i][1] + queue[i]>>
            /\ queue'[i] = 0
            /\ view'[i].button = ExpectedLabel(hooks[i][1] + queue[i])]_vars

C19_Witness ==
    \E i \in Instances :
        /\ IsMounted(i) /\ RenderedCount(i) = 0 /\ view[i].button = "count is 0"
        /\ queue[i] = 2 /\ clicks[i] = 2

----
(***************************************************************************)
(* Properties of the guards and of useAuth, under SpecGuards.              *)
(***************************************************************************)

Rendered(component) == probe.component = component /\ probe.context # Undefined

\* C5: ProtectedRoute renders its children only when isLoading is false and
\* isAuthenticated is true; while isLoading is true it renders the loading
\* placeholder, neither the children nor a redirect; when isLoading is false and
\* isAuthenticated is false it redirects to "/login", replacing, with the current
\* location in state.from.
C5_ProtectedRoute ==
    Rendered("ProtectedRoute") =>
        LET auth == probe.context
            out == probe.result IN
        /\ (out = Page("children")) <=> (~auth.isLoading /\ auth.isAuthenticated)
        /\ auth.isLoading => out = [kind |-> "loading", text |-> "Loading..."]
        /\ (~auth.isLoading /\ ~auth.isAuthenticated) =>
              out = [kind |-> "navigate", to |-> "/login", from |-> probe.location,
                     replace |-> TRUE]

C5_Witness ==
    /\ Rendered("ProtectedRoute")
    /\ ~probe.context.isLoading /\ ~probe.context.isAuthenticated
    /\ probe.location.pathname = "/admin"
    /\ probe.result.kind = "navigate" /\ probe.result.from.pathname = "/admin"

\* C7: PublicRoute never shows its children to an authenticated user: when
\* isAuthenticated is true it redirects to "/dashboard", replacing, and when
\* isAuthenticated is false it renders its children.
C7_PublicRoute ==
    Rendered("PublicRoute") =>
        LET auth == probe.context
            out == probe.result IN
        /\ auth.isAuthenticated =>
              /\ out.kind = "navigate" /\ out.to = "/dashboard" /\ out.replace
              /\ out # Page("children")
        /\ ~auth.isAuthenticated => out = Page("children")

C7_Witness ==
    /\ Rendered("PublicRoute")
    /\ probe.context.isAuthenticated /\ probe.context.isLoading
    /\ probe.result.kind = "navigate" /\ probe.result.to = "/dashboard"

\* C8: RoleRoute renders its children only when user is non-null and user.role
\* is a member of allowedRoles; with a null user it redirects to "/login"; with a
\* user whose role is not in allowedRoles (an empty allowedRoles included) it
\* renders UnauthorizedPage and never the children.
C8_RoleRoute ==
    Rendered("RoleRoute") =>
        LET auth == probe.context
            out == probe.result IN
        /\ (out = Page("children")) <=>
              (auth.user # Null /\ auth.user.role \in probe.allowedRoles)
        /\ auth.user = Null => (out.kind = "navigate" /\ out.to = "/login")
        /\ (auth.user # Null /\ auth.user.role \notin probe.allowedRoles) =>
              out = Page("UnauthorizedPage")

C8_Witness ==
    /\ Rendered("RoleRoute")
    /\ probe.allowedRoles = {}
    /\ probe.context.user = User("admin")
    /\ probe.result = Page("UnauthorizedPage")

\* C10: useAuth returns the context value when called under an AuthProvider,
\* throws Error("useAuth must be used within AuthProvider") when no AuthProvider
\* is above the caller, and never returns undefined.
C10_UseAuth ==
    probe.component = "useAuth" =>
        /\ probe.context # Undefined =>
              probe.result = [kind |-> "return", value |-> probe.context]
        /\ probe.context = Undefined =>
              probe.result =
                 [kind |-> "throw", message |-> "useAuth must be used within AuthProvider"]
        /\ probe.result.kind = "return" => probe.result.value \in AuthValues

C10_Witness ==
    /\ probe.component = "useAuth"
    /\ probe.context = Undefined
    /\ probe.result.kind = "throw"

----
(***************************************************************************)
(* Properties of the router, under SpecRoutes.                             *)
(***************************************************************************)

\* C6: the authentication guard preserves the intended destination. Once an
\* unauthenticated request for a protected route has been redirected to "/login",
\* a login has succeeded and the routes have settled on a page, the location is
\* the route that was requested.
C6_DestinationPreserved ==
    (loggedIn /\ settled /\ screen.kind = "page") =>
        location.pathname = intended.pathname

\* C18: the /admin element displays AdminPage only where isLoading is false,
\* isAuthenticated is true, user is non-null and user.role is "admin". Whenever
\* the routes have rendered for the current auth state, AdminPage is on the
\* screen exactly when the location is /admin and the auth state is that one.
C18_AdminPageOnlyForAdmin ==
    settled =>
        ((screen = Page("AdminPage")) <=>
            /\ location.pathname = "/admin"
            /\ ctx # Undefined
            /\ ~ctx.isLoading
            /\ ctx.isAuthenticated
            /\ ctx.user # Null
            /\ ctx.user.role = "admin")

C18_Witness ==
    /\ settled /\ screen = Page("AdminPage")
    /\ location.pathname = "/admin"
    /\ ctx = AuthValue(User("admin"), TRUE, FALSE)

\* C9: for an unauthenticated user (the auth state loaded), the routes, once
\* rendered, show the login page.
C9_UnauthenticatedSeesLogin ==
    (settled /\ ctx # Undefined /\ ~ctx.isAuthenticated /\ ~ctx.isLoading) =>
        screen = Page("LoginPage")

----
(***************************************************************************)
(* Properties of the utilities, under SpecUtils.                           *)
(***************************************************************************)

EndsWith(str, suffix) ==
    /\ Len(suffix) <= Len(str)
    /\ SubSeq(str, Len(str) - Len(suffix) + 1, Len(str)) = suffix

\* C13: truncate(str, length, suffix) returns str unchanged when
\* str.length <= length, and otherwise a string that ends with suffix and is
\* never longer than length characters, for every string and every length >= 0.
C13_Truncate ==
    util.fn = "truncate" =>
        /\ Len(util.str) <= util.length => util.result = util.str
        /\ Len(util.str) > util.length =>
              /\ EndsWith(util.result, util.suffix)
              /\ Len(util.result) <= util.length

----
(***************************************************************************)
(* Properties of the utilities called over time, under SpecClock.          *)
(***************************************************************************)

\* C14: every utility returns consistent results for the same inputs: two calls
\* of a function with equal arguments return equal results, whenever they are made
\* and whatever happened between them.
C14_SameInputsSameResult ==
    (util.fn # "none" /\ prev.fn = util.fn /\ prev.args = util.args) =>
        prev.result = util.result

----
(***************************************************************************)
(* Properties of SecureStorage, under SpecStorage.                         *)
(***************************************************************************)

\* C16: SecureStorage round-trips values per key. getItem never throws and returns
\* the value of the last setItem on its key when no removeItem followed it, and
\* null when the key was never set or was removed last; and an operation on one
\* key never changes what is stored under another key.
C16_RoundTrip ==
    /\ [](got.fn = "getItem" => got.outcome = Returned(expected[got.key]))
    /\ [][\A k \in Keys : (got'.fn # "none" /\ got'.key # k) =>
              /\ localStorage'[k] = localStorage[k]
              /\ getItem(localStorage', k) = getItem(localStorage, k)]_vars

----
(***************************************************************************)
(* Properties of AuthService.login, under SpecService.                     *)
(***************************************************************************)

ServiceNow == ServiceState(token, localStorage, authContext)

\* C12: when the API call succeeds, login has called the API exactly once, with the
\* credentials it was given, has stored the token of the response (in the field
\* and under 'authToken' for the class, under 'accessToken' and 'refreshToken' for
\* auth.service.ts), and returns the response of the API unchanged.
C12_LoginSuccess ==
    (loginResult # NoResult /\ loginResult.answer.kind = "return") =>
        /\ apiCalls = <<loginResult.credentials>>
        /\ loginResult.outcome = Returned(loginResult.answer.value)
        /\ loginResult.variant = "class" =>
               /\ token = loginResult.answer.value.token
               /\ getItem(localStorage, "authToken")
                      = Returned(loginResult.answer.value.token)
        /\ loginResult.variant = "service" =>
               /\ getItem(localStorage, "accessToken")
                      = Returned(loginResult.answer.value.accessToken)
               /\ getItem(localStorage, "refreshToken")
                      = Returned(loginResult.answer.value.refreshToken)

\* A second login of the class variant has succeeded with the token 'b', which is
\* now the one in the field and in the storage.
C12_Witness ==
    /\ loginResult # NoResult
    /\ loginResult.variant = "class"
    /\ loginResult.answer.kind = "return"
    /\ loginResult.before.token = Str(<<LetterA>>)
    /\ token = Str(<<LetterB>>)
    /\ getItem(localStorage, "authToken") = Returned(Str(<<LetterB>>))
    /\ apiCalls = <<loginResult.credentials>>

\* C20: when the API call fails, login throws AuthError('Login failed') and the
\* stored tokens and the auth state are as they were before the call; and the
\* tokens and the auth state change only in the step in which a login goes on
\* from a successful answer of the API.
C20_LoginFailure ==
    /\ []((loginResult # NoResult /\ loginResult.answer.kind = "throw") =>
              /\ loginResult.outcome.kind = "throw"
              /\ loginResult.outcome.name = "AuthError"
              /\ loginResult.outcome.message = "Login failed"
              /\ ServiceNow = loginResult.before)
    /\ [][ServiceNow' # ServiceNow =>
              /\ pending # NoLogin
              /\ pending' = NoLogin
              /\ loginResult'.answer.kind = "return"]_vars

\* A login has failed after an earlier one had succeeded: the tokens and the user
\* of the earlier login are still in place.
C20_Witness ==
    /\ loginResult # NoResult
    /\ loginResult.answer.kind = "throw"
    /\ loginResult.outcome.name = "AuthError"
    /\ loginResult.variant = "service"
    /\ getItem(localStorage, "accessToken") = Returned(Str(<<LetterA>>))
    /\ authContext.authenticated
    /\ ServiceNow = loginResult.before

----
(***************************************************************************)
(* Properties of arrayUtils and objectUtils, under SpecHeap.               *)
(***************************************************************************)

\* C15: the utilities do not modify their inputs: after a call of sortBy, unique,
\* groupBy or chunk the input array, and after a call of merge, pick, omit or
\* deepClone every input object, target and sources alike, is as it was before
\* the call, and so is everything else the caller held.
C15_InputsUnchanged ==
    /\ [](call.fn # "none" => heap = call.before)
    /\ [][heap' = heap]_vars

\* sortBy has returned the items in another order than the input array has them,
\* and the input array still has them in its own order.
C15_Witness ==
    /\ call.fn = "sortBy"
    /\ call.args = <<InputArray, "id", "asc">>
    /\ heap[1].props.id = Num(1)
    /\ heap[2].props.id = Num(2)
    /\ heap[3].items = <<Ref(2), Ref(1)>>
    /\ call.result = Arr(<<heap[1], heap[2]>>)
    /\ call.returned # InputArray

----
(***************************************************************************)
(* Properties of useExample, under SpecHook.                               *)
(***************************************************************************)

\* The fetch of the first render is the only one started, it has resolved, and the
\* hook has rendered since.
FirstFetchDone ==
    /\ started = 1
    /\ fetches = {}
    /\ settledFetches[1].ok
    /\ hookUpdates = <<>>

HookQuiet == hookReturn # NotRendered /\ ~effectPending /\ hookUpdates = <<>>

\* C23: when param changes or refetch is called while an earlier fetch is in
\* flight, then once all fetches have settled (successfully, and the hook has
\* rendered) data is the result for the latest param, whatever the order in which
\* the responses arrived.
C23_LatestParamWins ==
    (/\ HookQuiet
     /\ started >= 2
     /\ fetches = {}
     /\ \A i \in 1 .. Len(settledFetches) : settledFetches[i].ok)
        => hookReturn.data = DataFor(hookParam)

\* C24: loading is true in every state in which a fetch the hook started has not
\* settled, also when several fetches overlap, and false when none is in flight;
\* the states meant are those in which the hook has rendered its current state.
C24_LoadingWhileInFlight ==
    HookQuiet => (hookReturn.loading <=> fetches # {})

----
(***************************************************************************)
(* Properties of the router under a fixed auth state, under SpecRedirects. *)
(***************************************************************************)

\* C26, as the specification has it: for every fixed auth state and every starting
\* path the redirects settle after at most one redirect: the routes can always
\* render until a page is shown, and no more than one redirect is followed.
C26_AtMostOneRedirect ==
    /\ ~settled => ENABLED RenderRoutes
    /\ redirects <= 1

\* C26, amended: for every fixed auth state and every starting path the redirects
\* settle after at most two redirects, so no redirect loop is reachable; two
\* redirects are followed only from /admin (to /login, then to /dashboard) where
\* the auth state has loaded with isAuthenticated true and no user, and at most
\* one in every other case.
C26_RedirectsSettle ==
    /\ ~settled => ENABLED RenderRoutes
    /\ redirects <= 2
    /\ redirects = 2 =>
           /\ requested = "/admin"
           /\ location.pathname = "/dashboard"
           /\ ctx = AuthValue(Null, TRUE, FALSE)

\* /admin was opened by an authenticated visitor without a user: after two
\* redirects the dashboard is shown.
C26_Witness ==
    /\ redirects = 2
    /\ settled
    /\ screen = Page("DashboardPage")
    /\ requested = "/admin"
    /\ ctx = AuthValue(Null, TRUE, FALSE)

----
(***************************************************************************)
(* Properties of the auth state, under SpecAuth.                           *)
(***************************************************************************)

\* C25: isAuthenticated is true exactly when user is non-null, in every state
\* reached by successful and failed logins, a successful response carrying a
\* user: in the state of the AuthProvider, and in the authContext that the login
\* of auth.service.ts writes.
C25_AuthenticatedIffUser ==
    /\ ctx.isAuthenticated <=> ctx.user # Null
    /\ authContext.authenticated <=> authContext.user # Null

\* A visitor sent from /dashboard to the login page has logged in through the
\* AuthProvider, and a login through the service has failed after an earlier one
\* had succeeded.
C25_Witness ==
    /\ loggedIn
    /\ ctx = AuthValue(User("admin"), TRUE, FALSE)
    /\ loginResult # NoResult
    /\ loginResult.answer.kind = "throw"
    /\ authContext = [user |-> User("user"), authenticated |-> TRUE]


\* C21: once logout has settled, it has resolved and the stored token has been
\* cleared, whether authApi.logout resolved or rejected.
C21_LogoutClearsToken ==
    loginResult.variant = "logout"
        => /\ loginResult.outcome.kind = "return"
           /\ token = Null
           /\ getItem(localStorage, "authToken") = Returned(Null)

\* C22: once refreshToken has settled: with no refresh token stored, no call of
\* authApi.refreshToken was made; after every failure (no refresh token, or the
\* call rejected) logout has been invoked and AuthError('Token refresh failed')
\* is thrown; after a success the stored access token is the one of the
\* response, that token is returned, and the refresh token is as it was.
C22_RefreshToken ==
    loginResult.variant = "refresh"
        => LET before == loginResult.before
               answer == loginResult.answer
               called == {i \in 1 .. Len(apiCalls) : apiCalls[i].api = "refreshToken"}
           IN  /\ NoToken(getRefreshToken(before)) => called = {} /\ answer.kind = "throw"
               /\ answer.kind = "throw"
                      => /\ loginResult.outcome.kind = "throw"
                         /\ loginResult.outcome.name = "AuthError"
                         /\ loginResult.outcome.message = "Token refresh failed"
                         /\ pending = PendingLogout
                         /\ apiCalls[Len(apiCalls)] = LogoutCall
                         /\ localStorage = before.storage
               /\ answer.kind = "return"
                      => /\ loginResult.outcome = Returned(answer.value.accessToken)
                         /\ getItem(localStorage, "accessToken")
                                = Returned(answer.value.accessToken)
                         /\ localStorage["refreshToken"] = before.storage["refreshToken"]
                         /\ getRefreshToken(ServiceState(token, localStorage, authContext))
                                = getRefreshToken(before)
                         /\ pending = NoLogin

\* A refresh that succeeded, replacing a different access token, with a refresh
\* token stored.
C22_Witness ==
    /\ loginResult.variant = "refresh"
    /\ loginResult.answer.kind = "return"
    /\ getItem(loginResult.before.storage, "accessToken").value \in Tokens
    /\ getItem(loginResult.before.storage, "accessToken")
           # getItem(localStorage, "accessToken")
    /\ getRefreshToken(loginResult.before) \in Tokens

====
